---- MODULE Spec2Model ----
(***************************************************************************)
(* A model of clip/gffCLIP.py of htseq-clip: the sliding-window tiler      *)
(* (gffCLIP.slidingWindow), the annotation processor in sorted and         *)
(* unsorted mode (gffCLIP.process) and the gene resolver (GeneInfo.gene).  *)
(***************************************************************************)
EXTENDS Integers, Sequences, FiniteSets, TLC

(***************************************************************************)
(* Bounds of the model and constants of the program.                       *)
(***************************************************************************)
\* number of lines of the BED file read by one slidingWindow call
MaxLines == 2
\* largest end coordinate of a small BED interval
MaxEnd == 5
\* largest small window size and window step
MaxWindow == 3
\* number of features of the annotation stream read by one process call
MaxStream == 3
\* gffCLIP.windowSize and gffCLIP.windowStep, the class defaults
DefaultWindowSize == 50
DefaultWindowStep == 20

(***************************************************************************)
(* Text conversions.  A string that is built or parsed is a sequence of    *)
(* tokens: one-character strings for digits and separators, and the name   *)
(* tokens of a BED line, which are never taken apart.                      *)
(***************************************************************************)
DigitChar == << "0", "1", "2", "3", "4", "5", "6", "7", "8", "9" >>

DigitValue(c) == (CHOOSE d \in 1..10 : DigitChar[d] = c) - 1

RECURSIVE Digits(_)
\* str(n) of a non-negative integer
Digits(n) ==
    IF n < 10 THEN << DigitChar[n + 1] >>
    ELSE Append(Digits(n \div 10), DigitChar[(n % 10) + 1])

RECURSIVE ToInt(_)
\* int(s) of a decimal string
ToInt(s) ==
    IF Len(s) = 0 THEN 0
    ELSE 10 * ToInt(SubSeq(s, 1, Len(s) - 1)) + DigitValue(s[Len(s)])

RECURSIVE PadLeft(_, _)
\* "{:0>w}".format(s): zeros on the left up to width w, never a truncation
PadLeft(s, w) == IF Len(s) >= w THEN s ELSE PadLeft(<< "0" >> \o s, w)

(***************************************************************************)
(* The BED lines one slidingWindow call may read.  A data line is the six  *)
(* tab-separated fields; the name field is the sequence of its `@`-tokens, *)
(* and the fifth token "number/total" is kept as its two parts.            *)
(***************************************************************************)
Names == {"g1", "g2"}

Starts == {0, 1}

BedLine(n, s, e) ==
    [ track  |-> FALSE,
      chrom  |-> IF n = "g1" THEN "chr1" ELSE "chr2",
      start  |-> Digits(s),
      end    |-> Digits(e),
      name   |-> << n,
                    IF n = "g1" THEN "nameA" ELSE "nameB",
                    "protein_coding",
                    IF n = "g1" THEN "exon" ELSE "intron",
                    [ num   |-> IF n = "g1" THEN << "1" >>
                                           ELSE << "0", "0", "1", "2" >>,
                      total |-> << "3" >> ],
                    "flag" >>,
      score  |-> IF n = "g1" THEN "0" ELSE "1",
      strand |-> IF n = "g1" THEN "+" ELSE "-" ]

\* the (windowSize, windowStep) settings explored
Configs ==
    ((1..MaxWindow) \X (1..MaxWindow))
        \cup {<<DefaultWindowSize, DefaultWindowStep>>}

\* the intervals explored under a setting
Intervals(size) ==
    IF size = DefaultWindowSize
    THEN {<<0, 30>>, <<100, 150>>, <<100, 210>>, <<100, 220>>}
    ELSE {<<s, e>> \in Starts \X (0..MaxEnd) : s <= e}

DataLines(size) == { BedLine(n, iv[1], iv[2]) : n \in Names, iv \in Intervals(size) }

VARIABLES
    windowSize,    \* self.windowSize
    windowStep,    \* self.windowStep
    tpc,           \* position of slidingWindow: "idle", "read", "split",
                   \* "loop", "done", "raised"
    nLines,        \* lines of almnt_file read so far
    line,          \* the data line being processed
    windowidMap,   \* windowidMap: name[0] -> counter
    windowCount,   \* windowCount
    pos1,          \* pos1
    pos2,          \* pos2
    out,           \* rows written to self.fOutput by slidingWindow
    mark,          \* Len(out) when the current data line was read
    closedCount,   \* number of self.fOutput.close() calls
    unsorted,      \* the argument of process
    ppc,           \* position of process: "idle", "sorted", "pass1", "pass2",
                   \* "summary", "close", "done", "raised"
    stream,        \* the features read from gtf so far
    gene,          \* the local gene of _process_sorted
    geneMap,       \* self._geneMap, in insertion order
    mapPos,        \* position of the loop over self._geneMap.items()
    calls,         \* the calls made on self.fOutput and self.summary, in order
    summary,       \* self.summary: chromosomes and genetypes
    raised         \* the exception that ended the run, if any

tvars == << windowSize, windowStep, tpc, nLines, line, windowidMap,
            windowCount, pos1, pos2, out, mark >>

pvars == << unsorted, ppc, stream, gene, geneMap, mapPos, calls, summary,
            raised >>

vars == << tvars, pvars, closedCount >>

None == [ none |-> TRUE ]

\* no process call is running
ProcessIdle ==
    /\ unsorted = FALSE
    /\ ppc = "idle"
    /\ stream = << >>
    /\ gene = None
    /\ geneMap = << >>
    /\ mapPos = 0
    /\ calls = << >>
    /\ summary = [ chromosomes |-> << >>, genetypes |-> << >> ]
    /\ raised = "none"

NoLine == [ track |-> TRUE ]

TileInit ==
    /\ \E c \in Configs : windowSize = c[1] /\ windowStep = c[2]
    /\ tpc = "read"
    /\ nLines = 0
    /\ line = NoLine
    /\ windowidMap = << >>
    /\ windowCount = 0
    /\ pos1 = 0
    /\ pos2 = 0
    /\ out = << >>
    /\ mark = 0
    /\ closedCount = 0
    /\ ProcessIdle

\* name = line[3].split('@')
NameOf(l) == l.name

\* featureNumber, _ = name[4].split('/')
FeatureNumber(l) == NameOf(l)[5].num

\* a variant that takes the part of the fifth token after the `/`
UIDFromTotal(l, count) ==
    << NameOf(l)[1], ":", NameOf(l)[4] >> \o PadLeft(NameOf(l)[5].total, 4)
        \o << "W" >> \o PadLeft(Digits(count), 5)

\* "{0}:{1}{2:0>4}W{3:0>5}".format(name[0],name[3],featureNumber,windowCount)
UID(l, count) ==
    << NameOf(l)[1], ":", NameOf(l)[4] >> \o PadLeft(FeatureNumber(l), 4)
        \o << "W" >> \o PadLeft(Digits(count), 5)

\* seq = (line[0], str(a), str(b), "@".join(name[:5]+[UID,str(windowCount)]),
\*        line[4], strand)
WindowRow(l, a, b, count) ==
    [ chrom  |-> l.chrom,
      start  |-> Digits(a),
      end    |-> Digits(b),
      name   |-> SubSeq(NameOf(l), 1, 5) \o << UID(l, count), Digits(count) >>,
      score  |-> l.score,
      strand |-> l.strand ]

\* a variant that restarts the counter on every line
FirstCountRestart(map, n) == 1

\* the counter a data line starts with: windowidMap[name[0]] + 1, or 1 on
\* a KeyError
FirstCount(map, n) == IF n \in DOMAIN map THEN map[n] + 1 ELSE 1

\* a variant that keeps the counter of the current name only
MapPutAlone(map, n, v) == [ k \in {n} |-> v ]

\* windowidMap[name[0]] = value
MapPut(map, n, v) ==
    [ k \in (DOMAIN map) \cup {n} |-> IF k = n THEN v ELSE map[k] ]

\* a line that starts with "track": continue
ReadTrack ==
    /\ tpc = "read"
    /\ nLines < MaxLines
    /\ nLines' = nLines + 1
    /\ UNCHANGED << windowSize, windowStep, tpc, line, windowidMap,
                    windowCount, pos1, pos2, out, mark, closedCount, pvars >>

\* a data line: parse it, look its counter up, set pos1 and pos2
ReadData ==
    /\ tpc = "read"
    /\ nLines < MaxLines
    /\ \E l \in DataLines(windowSize) :
          LET n == NameOf(l)[1] IN
          /\ line' = l
          /\ windowCount' = FirstCount(windowidMap, n)
          /\ windowidMap' = IF n \in DOMAIN windowidMap
                            THEN windowidMap ELSE MapPut(windowidMap, n, 1)
          /\ pos1' = ToInt(l.start)
          /\ pos2' = ToInt(l.start) + windowSize
    /\ nLines' = nLines + 1
    /\ mark' = Len(out)
    /\ tpc' = "split"
    /\ UNCHANGED << windowSize, windowStep, out, closedCount, pvars >>

\* a line whose name field has fewer than five `@`-tokens: name[4] raises
\* IndexError, which nothing catches
ReadMalformed ==
    /\ tpc = "read"
    /\ nLines < MaxLines
    /\ nLines' = nLines + 1
    /\ tpc' = "raised"
    /\ UNCHANGED << windowSize, windowStep, line, windowidMap, windowCount,
                    pos1, pos2, out, mark, closedCount, pvars >>

\* a variant that sends the boundary pos2 = end to the stepping branch
WholeIntervalStrict(p2, end) == p2 > end

\* if pos2 >= end
WholeInterval(p2, end) == p2 >= end

\* the whole interval is one window
SingleWindow ==
    /\ tpc = "split"
    /\ WholeInterval(pos2, ToInt(line.end))
    /\ out' = Append(out, WindowRow(line, ToInt(line.start), ToInt(line.end),
                                    windowCount))
    /\ windowCount' = windowCount + 1
    /\ windowidMap' = MapPut(windowidMap, NameOf(line)[1], windowCount + 1)
    /\ tpc' = "read"
    /\ UNCHANGED << windowSize, windowStep, nLines, line, pos1, pos2, mark,
                    closedCount, pvars >>

\* the test of the truncation branch inside the loop: if pos2 > end
Truncates(p2, end) == p2 > end

\* the else branch, at the test of: while pos2 < end
AtLoopTest ==
    \/ tpc = "loop"
    \/ tpc = "split" /\ ~ WholeInterval(pos2, ToInt(line.end))

\* a variant whose iteration writes nothing and advances nothing
LoopIterationStuck ==
    /\ AtLoopTest
    /\ pos2 < ToInt(line.end)
    /\ tpc' = "loop"
    /\ UNCHANGED << windowSize, windowStep, nLines, line, windowidMap,
                    windowCount, pos1, pos2, out, mark, closedCount, pvars >>

\* one iteration of: while pos2 < end
LoopIteration ==
    /\ AtLoopTest
    /\ pos2 < ToInt(line.end)
    /\ LET end  == ToInt(line.end)
           row  == WindowRow(line, pos1, pos2, windowCount)
           np1  == pos1 + windowStep
           np2  == pos2 + windowStep
       IN  /\ pos1' = np1
           /\ IF Truncates(np2, end)
              THEN /\ pos2' = end
                   /\ out' = out \o << row,
                                WindowRow(line, np1, end, windowCount + 1) >>
                   /\ windowCount' = windowCount + 2
              ELSE /\ pos2' = np2
                   /\ out' = Append(out, row)
                   /\ windowCount' = windowCount + 1
    /\ tpc' = "loop"
    /\ UNCHANGED << windowSize, windowStep, nLines, line, windowidMap, mark,
                    closedCount, pvars >>

\* the loop ends; windowidMap[name[0]] = windowCount
LoopExit ==
    /\ AtLoopTest
    /\ ~ (pos2 < ToInt(line.end))
    /\ windowidMap' = MapPut(windowidMap, NameOf(line)[1], windowCount)
    /\ tpc' = "read"
    /\ UNCHANGED << windowSize, windowStep, nLines, line, windowCount, pos1,
                    pos2, out, mark, closedCount, pvars >>

\* end of the file: almnt_file.close(); self.fOutput.close()
TileClose ==
    /\ tpc = "read"
    /\ closedCount' = closedCount + 1
    /\ tpc' = "done"
    /\ UNCHANGED << windowSize, windowStep, nLines, line, windowidMap,
                    windowCount, pos1, pos2, out, mark, pvars >>

TileNext ==
    \/ ReadTrack
    \/ ReadData
    \/ ReadMalformed
    \/ SingleWindow
    \/ LoopIteration
    \/ LoopExit
    \/ TileClose

SpecTile == TileInit /\ [][TileNext]_vars

\* slidingWindow is one sequential call: while it has a next step it takes it
SpecTileFair == SpecTile /\ WF_vars(TileNext)

(***************************************************************************)
(* The annotation stream.  A feature is what HTSeq.GFF_Reader yields:      *)
(* type, iv (chrom, start, end, strand) and the attribute mapping attr.    *)
(***************************************************************************)
\* geneDefinitions of gffCLIP and of GeneInfo
GeneDefinitions == {"tRNA", "gene", "tRNAscan", "tRNA_gene"}

\* self.geneId, self.geneName, self.geneType: the attribute keys
GeneIdAttrib == "gene_id"

GeneNameAttrib == "gene_name"

GeneTypeAttrib == "gene_type"

Attr(id, name, type) ==
    (GeneIdAttrib :> id) @@ (GeneNameAttrib :> name) @@ (GeneTypeAttrib :> type)

\* a feature without the gene-id attribute
AttrNoId(name, type) == (GeneNameAttrib :> name) @@ (GeneTypeAttrib :> type)

Feature(type, attr, chrom, start, end, strand) ==
    [ type |-> type, attr |-> attr,
      iv |-> [ chrom |-> chrom, start |-> start, end |-> end,
               strand |-> strand ] ]

\* the features a stream is drawn from
Features ==
    { Feature("gene", Attr("g1", "A", "protein_coding"), "chr1", 1, 121, "+"),
      Feature("gene", Attr("g1", "B", "lncRNA"), "chr1", 1, 121, "+"),
      Feature("gene", Attr("g1", "A", "protein_coding"), "chr1", 1, 121, "-"),
      Feature("gene", Attr("g1", "A", "protein_coding"), "chr1", 2, 121, "+"),
      Feature("gene", Attr("g1", "A", "protein_coding"), "chr1", 1, 122, "+"),
      Feature("tRNA", Attr("g1", "A", "protein_coding"), "chr1", 1, 121, "+"),
      Feature("gene", Attr("g2", "C", "protein_coding"), "chr2", 1, 81, "+"),
      Feature("exon", Attr("g1", "A", "protein_coding"), "chr1", 2, 3, "+"),
      Feature("intron", Attr("g1", "A", "protein_coding"), "chr1", 3, 4, "+"),
      Feature("exon", Attr("g2", "C", "protein_coding"), "chr2", 2, 3, "+"),
      Feature("exon", AttrNoId("A", "protein_coding"), "chr1", 2, 3, "+"),
      Feature("gene", AttrNoId("D", "protein_coding"), "chr2", 1, 81, "+") }

\* GTxFeature.isGene()
IsGene(f) == f.type \in GeneDefinitions

\* Gene(feature): a gene accumulator seeded from its gene feature
Gene(f) == [ feature |-> f, features |-> << >> ]

\* gene.add(feature)
GeneAdd(g, f) == [ g EXCEPT !.features = Append(@, f) ]

\* gene.toBedDetailed(): the BED lines of a gene, one for the gene and one
\* for each of its features
ToBedDetailed(g) ==
    << [ kind |-> "bed", gene |-> g.feature, region |-> g.feature ] >>
        \o [ i \in 1..Len(g.features) |->
               [ kind |-> "bed", gene |-> g.feature,
                 region |-> g.features[i] ] ]

\* an insertion-ordered mapping is a sequence of <<key, value>> pairs
Keys(d) == { d[i][1] : i \in 1..Len(d) }

\* d[k] += v, the key being inserted at the end when new
DictAddTo(d, k, v) ==
    IF k \in Keys(d)
    THEN [ i \in 1..Len(d) |->
             IF d[i][1] = k THEN << k, d[i][2] + v >> ELSE d[i] ]
    ELSE Append(d, << k, v >>)

\* the length a gene contributes to the summary
GeneLength(g) == g.feature.iv.end - g.feature.iv.start

\* self.summary.add(gene)
SummaryAdd(sm, g) ==
    [ chromosomes |->
        DictAddTo(sm.chromosomes, g.feature.iv.chrom, GeneLength(g)),
      genetypes |->
        DictAddTo(sm.genetypes, g.feature.attr[GeneTypeAttrib], GeneLength(g)) ]

(***************************************************************************)
(* processGene: the calls it makes and the summary it leaves.              *)
(***************************************************************************)
WriteCall(l) == [ op |-> "write", arg |-> l ]

AddCall(g) == [ op |-> "add", arg |-> g ]

\* a variant that calls summary.add before the BED lines are written
CallsAfterProcessGeneAddFirst(c, g) ==
    IF g = None THEN c
    ELSE c \o << [ op |-> "add", arg |-> g ] >>
           \o [ i \in 1..Len(ToBedDetailed(g)) |->
                  [ op |-> "write", arg |-> ToBedDetailed(g)[i] ] ]

\* the calls after processGene(g): nothing for None, else one write per BED
\* line and then summary.add
CallsAfterProcessGene(c, g) ==
    IF g = None THEN c
    ELSE c \o [ i \in 1..Len(ToBedDetailed(g)) |->
                  WriteCall(ToBedDetailed(g)[i]) ]
           \o << AddCall(g) >>

SummaryAfterProcessGene(sm, g) == IF g = None THEN sm ELSE SummaryAdd(sm, g)

(***************************************************************************)
(* GeneInfo.                                                               *)
(***************************************************************************)
\* GeneInfo(id)
NewGeneInfo(id) == [ id |-> id, featList |-> << >>, typeMap |-> << >> ]

\* GeneInfo.add_feature: _typeMap holds the 0-based list indexes
AddFeature(info, f) ==
    LET ix == Len(info.featList) IN
    [ info EXCEPT
        !.featList = Append(@, f),
        !.typeMap =
            IF f.type \in DOMAIN @
            THEN [ @ EXCEPT ![f.type] = Append(@, ix) ]
            ELSE @ @@ (f.type :> << ix >>) ]

\* a variant that compares start and end only
CheckGeneFeatureNoStrand(info, geneInd) ==
    /\ Cardinality({ info.featList[geneInd[k] + 1].iv.start :
                       k \in 1..Len(geneInd) }) = 1
    /\ Cardinality({ info.featList[geneInd[k] + 1].iv.end :
                       k \in 1..Len(geneInd) }) = 1

\* GeneInfo._checkGeneFeature
CheckGeneFeature(info, geneInd) ==
    LET start_pos == { info.featList[geneInd[k] + 1].iv.start :
                         k \in 1..Len(geneInd) }
        end_pos   == { info.featList[geneInd[k] + 1].iv.end :
                         k \in 1..Len(geneInd) }
        strand    == { info.featList[geneInd[k] + 1].iv.strand :
                         k \in 1..Len(geneInd) }
    IN  Cardinality(start_pos) = 1 /\ Cardinality(end_pos) = 1
            /\ Cardinality(strand) = 1

\* a variant that returns the last of the duplicates instead of the first
GeneInfoGeneLast(info) ==
    LET geneDef == GeneDefinitions \cap DOMAIN info.typeMap IN
    IF Cardinality(geneDef) = 0 THEN None
    ELSE IF Cardinality(geneDef) > 1 THEN None
    ELSE LET geneInd == info.typeMap[CHOOSE t \in geneDef : TRUE] IN
         IF Len(geneInd) > 1
         THEN IF CheckGeneFeature(info, geneInd)
              THEN info.featList[geneInd[Len(geneInd)] + 1]
              ELSE None
         ELSE info.featList[geneInd[1] + 1]

\* GeneInfo.gene
GeneInfoGene(info) ==
    LET geneDef == GeneDefinitions \cap DOMAIN info.typeMap IN
    IF Cardinality(geneDef) = 0 THEN None
    ELSE IF Cardinality(geneDef) > 1 THEN None
    ELSE LET geneInd == info.typeMap[CHOOSE t \in geneDef : TRUE] IN
         IF Len(geneInd) > 1
         THEN IF CheckGeneFeature(info, geneInd)
              THEN info.featList[geneInd[1] + 1]
              ELSE None
         ELSE info.featList[geneInd[1] + 1]

\* self._geneMap[f.attr[self.geneId]].add_feature(f), the GeneInfo being
\* created on a KeyError
GeneMapAdd(map, f) ==
    LET id == f.attr[GeneIdAttrib] IN
    IF \E i \in 1..Len(map) : map[i].id = id
    THEN [ i \in 1..Len(map) |->
             IF map[i].id = id THEN AddFeature(map[i], f) ELSE map[i] ]
    ELSE Append(map, AddFeature(NewGeneInfo(id), f))

RECURSIVE AddAll(_, _)
\* gene.add(GTxFeature(f)) for every f of fs, in order
AddAll(g, fs) ==
    IF Len(fs) = 0 THEN g ELSE AddAll(GeneAdd(g, Head(fs)), Tail(fs))

\* a variant that keeps the gene-defining duplicates as features
SubordinatesAll(fs) == fs

\* the features of geneObj.features that are not skipped by
\* `if f.type in set(self.geneDefinitions): continue`
Subordinates(fs) == SelectSeq(fs, LAMBDA f : f.type \notin GeneDefinitions)

\* the gene built in pass 2 from a resolved GeneInfo
UnsortedGene(info) ==
    AddAll(Gene(GeneInfoGene(info)), Subordinates(info.featList))

(***************************************************************************)
(* process(unsorted).                                                      *)
(***************************************************************************)
(***************************************************************************)
(* The two modes as functions of a whole stream: the genes each hands to   *)
(* processGene, in order, and whether it raises.                           *)
(***************************************************************************)
RECURSIVE SortedRun(_, _, _)
\* _process_sorted on the rest st of a stream, with the slot g and the genes
\* done handed to processGene so far
SortedRun(st, g, done) ==
    LET flushed == IF g = None THEN done ELSE Append(done, g) IN
    IF st = << >> THEN [ raised |-> FALSE, genes |-> flushed ]
    ELSE IF IsGene(Head(st)) THEN SortedRun(Tail(st), Gene(Head(st)), flushed)
    ELSE IF g = None THEN [ raised |-> TRUE, genes |-> done ]
    ELSE SortedRun(Tail(st), GeneAdd(g, Head(st)), done)

RECURSIVE GeneMapOf(_)
\* self._geneMap after pass 1 of _process_unsorted over st
GeneMapOf(st) ==
    IF st = << >> THEN << >>
    ELSE LET m == GeneMapOf(SubSeq(st, 1, Len(st) - 1))
             f == st[Len(st)]
         IN  IF GeneIdAttrib \notin DOMAIN f.attr THEN m ELSE GeneMapAdd(m, f)

\* _process_unsorted on a stream
UnsortedRun(st) ==
    LET m == GeneMapOf(st)
        ok == SelectSeq(m, LAMBDA info : GeneInfoGene(info) # None)
    IN  [ raised |-> Len(m) = 0,
          genes  |-> [ k \in 1..Len(ok) |-> UnsortedGene(ok[k]) ] ]

ProcessInit ==
    /\ unsorted \in BOOLEAN
    /\ ppc = IF unsorted THEN "pass1" ELSE "sorted"
    /\ stream = << >>
    /\ gene = None
    /\ geneMap = << >>
    /\ mapPos = 0
    /\ calls = << >>
    /\ summary = [ chromosomes |-> << >>, genetypes |-> << >> ]
    /\ raised = "none"
    /\ closedCount = 0
    /\ windowSize = DefaultWindowSize
    /\ windowStep = DefaultWindowStep
    /\ tpc = "idle"
    /\ nLines = 0
    /\ line = NoLine
    /\ windowidMap = << >>
    /\ windowCount = 0
    /\ pos1 = 0
    /\ pos2 = 0
    /\ out = << >>
    /\ mark = 0

\* a variant that leaves the slot empty after a gene feature
SortedGeneEmptySlot ==
    /\ ppc = "sorted"
    /\ Len(stream) < MaxStream
    /\ \E f \in Features :
          /\ IsGene(f)
          /\ stream' = Append(stream, f)
          /\ calls' = CallsAfterProcessGene(calls, gene)
          /\ summary' = SummaryAfterProcessGene(summary, gene)
    /\ UNCHANGED << unsorted, ppc, gene, geneMap, mapPos, raised,
                    closedCount, tvars >>

\* _process_sorted reads a gene feature: processGene(gene), then a new Gene
SortedGene ==
    /\ ppc = "sorted"
    /\ Len(stream) < MaxStream
    /\ \E f \in Features :
          /\ IsGene(f)
          /\ stream' = Append(stream, f)
          /\ calls' = CallsAfterProcessGene(calls, gene)
          /\ summary' = SummaryAfterProcessGene(summary, gene)
          /\ gene' = Gene(f)
    /\ UNCHANGED << unsorted, ppc, geneMap, mapPos, raised, closedCount,
                    tvars >>

\* _process_sorted reads another feature while gene is set: gene.add
SortedAdd ==
    /\ ppc = "sorted"
    /\ Len(stream) < MaxStream
    /\ gene # None
    /\ \E f \in Features :
          /\ ~ IsGene(f)
          /\ stream' = Append(stream, f)
          /\ gene' = GeneAdd(gene, f)
    /\ UNCHANGED << unsorted, ppc, geneMap, mapPos, calls, summary, raised,
                    closedCount, tvars >>

\* a variant that drops the feature and reads on
SortedRaiseDrop ==
    /\ ppc = "sorted"
    /\ Len(stream) < MaxStream
    /\ gene = None
    /\ \E f \in Features :
          /\ ~ IsGene(f)
          /\ stream' = Append(stream, f)
    /\ UNCHANGED << unsorted, ppc, raised, gene, geneMap, mapPos, calls,
                    summary, closedCount, tvars >>

\* _process_sorted reads another feature while gene is None: raise Exception
SortedRaise ==
    /\ ppc = "sorted"
    /\ Len(stream) < MaxStream
    /\ gene = None
    /\ \E f \in Features :
          /\ ~ IsGene(f)
          /\ stream' = Append(stream, f)
    /\ ppc' = "raised"
    /\ raised' = "Exception"
    /\ UNCHANGED << unsorted, gene, geneMap, mapPos, calls, summary,
                    closedCount, tvars >>

\* a variant that forgets the gene still in the slot
SortedEndNoLastGene ==
    /\ ppc = "sorted"
    /\ ppc' = "summary"
    /\ UNCHANGED << unsorted, stream, gene, geneMap, mapPos, calls, summary,
                    raised, closedCount, tvars >>

\* _process_sorted at the end of the stream: processGene(gene)
SortedEnd ==
    /\ ppc = "sorted"
    /\ calls' = CallsAfterProcessGene(calls, gene)
    /\ summary' = SummaryAfterProcessGene(summary, gene)
    /\ ppc' = "summary"
    /\ UNCHANGED << unsorted, stream, gene, geneMap, mapPos, raised,
                    closedCount, tvars >>

\* a variant without the test for the attribute: the lookup raises KeyError
Pass1SkipKeyError ==
    /\ ppc = "pass1"
    /\ Len(stream) < MaxStream
    /\ \E f \in Features :
          /\ GeneIdAttrib \notin DOMAIN f.attr
          /\ stream' = Append(stream, f)
    /\ ppc' = "raised"
    /\ raised' = "KeyError"
    /\ UNCHANGED << unsorted, gene, geneMap, mapPos, calls, summary,
                    closedCount, tvars >>

\* pass 1 of _process_unsorted reads a feature without the gene-id
\* attribute: continue
Pass1Skip ==
    /\ ppc = "pass1"
    /\ Len(stream) < MaxStream
    /\ \E f \in Features :
          /\ GeneIdAttrib \notin DOMAIN f.attr
          /\ stream' = Append(stream, f)
    /\ UNCHANGED << unsorted, ppc, gene, geneMap, mapPos, calls, summary,
                    raised, closedCount, tvars >>

\* pass 1 of _process_unsorted reads a feature with the gene-id attribute
Pass1Add ==
    /\ ppc = "pass1"
    /\ Len(stream) < MaxStream
    /\ \E f \in Features :
          /\ GeneIdAttrib \in DOMAIN f.attr
          /\ stream' = Append(stream, f)
          /\ geneMap' = GeneMapAdd(geneMap, f)
    /\ UNCHANGED << unsorted, ppc, gene, mapPos, calls, summary, raised,
                    closedCount, tvars >>

\* the sanity check after pass 1 fails: raise ValueError
Pass1Empty ==
    /\ ppc = "pass1"
    /\ Len(geneMap) = 0
    /\ ppc' = "raised"
    /\ raised' = "ValueError"
    /\ UNCHANGED << unsorted, stream, gene, geneMap, mapPos, calls, summary,
                    closedCount, tvars >>

\* the sanity check after pass 1 passes: the loop over _geneMap.items()
Pass1Done ==
    /\ ppc = "pass1"
    /\ Len(geneMap) # 0
    /\ ppc' = "pass2"
    /\ mapPos' = 1
    /\ UNCHANGED << unsorted, stream, gene, geneMap, calls, summary, raised,
                    closedCount, tvars >>

\* a variant that leaves the loop instead of continuing it
Pass2SkipBreak ==
    /\ ppc = "pass2"
    /\ mapPos <= Len(geneMap)
    /\ GeneInfoGene(geneMap[mapPos]) = None
    /\ mapPos' = Len(geneMap) + 1
    /\ UNCHANGED << unsorted, ppc, stream, gene, geneMap, calls, summary,
                    raised, closedCount, tvars >>

\* pass 2: geneObj.gene is None: continue
Pass2Skip ==
    /\ ppc = "pass2"
    /\ mapPos <= Len(geneMap)
    /\ GeneInfoGene(geneMap[mapPos]) = None
    /\ mapPos' = mapPos + 1
    /\ UNCHANGED << unsorted, ppc, stream, gene, geneMap, calls, summary,
                    raised, closedCount, tvars >>

\* pass 2: the gene resolves: build it, add its features, processGene
Pass2Emit ==
    /\ ppc = "pass2"
    /\ mapPos <= Len(geneMap)
    /\ GeneInfoGene(geneMap[mapPos]) # None
    /\ gene' = UnsortedGene(geneMap[mapPos])
    /\ calls' = CallsAfterProcessGene(calls, UnsortedGene(geneMap[mapPos]))
    /\ summary' = SummaryAfterProcessGene(summary,
                                          UnsortedGene(geneMap[mapPos]))
    /\ mapPos' = mapPos + 1
    /\ UNCHANGED << unsorted, ppc, stream, geneMap, raised, closedCount,
                    tvars >>

\* pass 2: the loop over _geneMap.items() ends
Pass2End ==
    /\ ppc = "pass2"
    /\ mapPos > Len(geneMap)
    /\ ppc' = "summary"
    /\ UNCHANGED << unsorted, stream, gene, geneMap, mapPos, calls, summary,
                    raised, closedCount, tvars >>

\* 'track chr {} {}' and 'track type {} {}'
TrackChr(kv) ==
    [ kind |-> "track", what |-> "chr", key |-> kv[1], length |-> kv[2] ]

TrackType(kv) ==
    [ kind |-> "track", what |-> "type", key |-> kv[1], length |-> kv[2] ]

\* a variant that writes the gene-type lines before the chromosome lines
WriteSummaryTypesFirst ==
    /\ ppc = "summary"
    /\ calls' = calls
          \o [ i \in 1..Len(summary.genetypes) |->
                 WriteCall(TrackType(summary.genetypes[i])) ]
          \o [ i \in 1..Len(summary.chromosomes) |->
                 WriteCall(TrackChr(summary.chromosomes[i])) ]
    /\ ppc' = "close"
    /\ UNCHANGED << unsorted, stream, gene, geneMap, mapPos, summary, raised,
                    closedCount, tvars >>

\* _write_summary
WriteSummary ==
    /\ ppc = "summary"
    /\ calls' = calls
          \o [ i \in 1..Len(summary.chromosomes) |->
                 WriteCall(TrackChr(summary.chromosomes[i])) ]
          \o [ i \in 1..Len(summary.genetypes) |->
                 WriteCall(TrackType(summary.genetypes[i])) ]
    /\ ppc' = "close"
    /\ UNCHANGED << unsorted, stream, gene, geneMap, mapPos, summary, raised,
                    closedCount, tvars >>

\* self.fOutput.close() at the end of process
ProcessClose ==
    /\ ppc = "close"
    /\ closedCount' = closedCount + 1
    /\ ppc' = "done"
    /\ UNCHANGED << unsorted, stream, gene, geneMap, mapPos, calls, summary,
                    raised, tvars >>

ProcessNext ==
    \/ SortedGene
    \/ SortedAdd
    \/ SortedRaise
    \/ SortedEnd
    \/ Pass1Skip
    \/ Pass1Add
    \/ Pass1Empty
    \/ Pass1Done
    \/ Pass2Skip
    \/ Pass2Emit
    \/ Pass2End
    \/ WriteSummary
    \/ ProcessClose

SpecProcess == ProcessInit /\ [][ProcessNext]_vars

(***************************************************************************)
(* Properties of slidingWindow.                                            *)
(***************************************************************************)
\* a data line has been processed completely and its counter stored
LineDone == tpc \in {"read", "done"} /\ ~ line.track

LineStart == ToInt(line.start)

LineEnd == ToInt(line.end)

\* the windows written for the current data line, as <<start, end>> pairs
LineWindows ==
    [ i \in 1..(Len(out) - mark) |->
        << ToInt(out[mark + i].start), ToInt(out[mark + i].end) >> ]

\* name[0] and the window serial of an output row
RowName(r) == r.name[1]

RowSerial(r) == ToInt(r.name[7])

RowUID(r) == r.name[6]

\* the first m whose full-width window [s + m*step, s + m*step + size) ends
\* at or beyond e
FirstBeyond(s, e, size, step) ==
    CHOOSE m \in 0..e :
        /\ s + m * step + size >= e
        /\ \A k \in 0..(m - 1) : s + k * step + size < e

\* full-width windows for k < m, then one final window [s + m*step, e)
SpecifiedWindows(s, e, size, step) ==
    LET m == FirstBeyond(s, e, size, step) IN
    [ i \in 1..(m + 1) |->
        IF i <= m
        THEN << s + (i - 1) * step, s + (i - 1) * step + size >>
        ELSE << s + m * step, e >> ]

\* C1: for a data line with start + windowSize < end the windows written
\* are the full-width windows whose end is below `end`, then exactly one
\* final window ending at `end`; 50/20 on [100,210) gives
\* [100,150),[120,170),[140,190),[160,210).
C1_WindowsAsSpecified ==
    (LineDone /\ LineStart + windowSize < LineEnd) =>
        /\ LineWindows =
              SpecifiedWindows(LineStart, LineEnd, windowSize, windowStep)
        /\ (/\ windowSize = DefaultWindowSize
            /\ windowStep = DefaultWindowStep
            /\ LineStart = 100 /\ LineEnd = 210) =>
              LineWindows = << <<100, 150>>, <<120, 170>>, <<140, 190>>,
                               <<160, 210>> >>

\* C2: for a data line with start < end and windowStep <= windowSize the
\* windows cover [start,end) without a gap: the first starts at start, each
\* next one starts at or before the end of the one before, the last ends
\* at end.
C2_CoversInterval ==
    (LineDone /\ LineStart < LineEnd /\ windowStep <= windowSize) =>
        /\ Len(LineWindows) >= 1
        /\ LineWindows[1][1] = LineStart
        /\ \A i \in 2..Len(LineWindows) :
              LineWindows[i][1] <= LineWindows[i - 1][2]
        /\ LineWindows[Len(LineWindows)][2] = LineEnd

\* C3: a data line with start + windowSize >= end gets exactly one window,
\* [start, end).
C3_SingleWindow ==
    (LineDone /\ LineStart + windowSize >= LineEnd) =>
        LineWindows = << << LineStart, LineEnd >> >>

\* a non-empty interval at the boundary start + windowSize = end has been
\* processed and got its one window
C3_Witness ==
    /\ LineDone
    /\ LineStart + windowSize = LineEnd
    /\ LineStart < LineEnd
    /\ Len(LineWindows) = 1

\* C4: the n-th window written for a name carries the counter n: the
\* counter starts at 1, is never reset and skips no value.
C4_CounterCountsWindows ==
    \A i \in 1..Len(out) :
        RowSerial(out[i]) =
            Cardinality({ j \in 1..i : RowName(out[j]) = RowName(out[i]) })

\* C5: the counters of the rows written for one name increase strictly in
\* the order written, and no two rows share a UID.
C5_CountersIncrease ==
    \A i, j \in 1..Len(out) :
        i < j =>
            /\ RowName(out[i]) = RowName(out[j]) =>
                  RowSerial(out[i]) < RowSerial(out[j])
            /\ RowUID(out[i]) # RowUID(out[j])

\* two data lines of one name have been processed, the second one split
\* into several windows
C5_Witness ==
    /\ LineDone
    /\ mark >= 1
    /\ Len(out) >= mark + 2
    /\ RowName(out[mark]) = RowName(out[mark + 1])

(***************************************************************************)
(* Properties of process.                                                  *)
(***************************************************************************)
Last(q) == q[Len(q)]

\* the genes handed to summary.add so far, in order: the finalized genes
Finalized == 
    LET adds == SelectSeq(calls, LAMBDA c : c.op = "add") IN
    [ i \in 1..Len(adds) |-> adds[i].arg ]

\* the BED lines written so far
BedWritten ==
    LET w == SelectSeq(calls, LAMBDA c : c.op = "write" /\ c.arg.kind = "bed")
    IN  [ i \in 1..Len(w) |-> w[i].arg ]

Completed == ppc \in {"summary", "close", "done"}

GenePositions(st) == { i \in 1..Len(st) : IsGene(st[i]) }

\* the first gene-defining position after i, or the end of the stream
Boundary(st, i) ==
    IF \E j \in GenePositions(st) : j > i
    THEN CHOOSE j \in GenePositions(st) :
            j > i /\ \A k \in GenePositions(st) : k > i => j <= k
    ELSE Len(st) + 1

\* the genes of a stream read in order: each gene-defining feature with the
\* features that lie between it and the next gene-defining feature
GenesInStreamOrder(st) ==
    LET pos(k) == CHOOSE i \in GenePositions(st) :
                     Cardinality({ j \in GenePositions(st) : j <= i }) = k
    IN  [ k \in 1..Cardinality(GenePositions(st)) |->
            [ feature  |-> st[pos(k)],
              features |-> SubSeq(st, pos(k) + 1, Boundary(st, pos(k)) - 1) ] ]

C7_SortedFinalization ==
    (~ unsorted /\ ppc # "idle" /\ raised = "none") =>
        LET genes == GenesInStreamOrder(stream) IN
        /\ Completed => Finalized = genes
        /\ ppc = "sorted" =>
              /\ Finalized = SubSeq(genes, 1, Len(genes) - 1)
              /\ gene = IF genes = << >> THEN None ELSE Last(genes)
        /\ stream = << >> => Finalized = << >>

\* a sorted run has completed with two genes, the first with a feature
C7_Witness ==
    /\ ~ unsorted
    /\ ppc = "done"
    /\ Len(Finalized) = 2
    /\ Len(Finalized[1].features) >= 1

\* the gene-defining features of a list, in order
GeneDefining(fs) == SelectSeq(fs, IsGene)

Triple(f) == << f.iv.start, f.iv.end, f.iv.strand >>

\* the resolution the claims describe, over the gene-defining features occ
\* of one gene id: None without any, None with two types, None when the
\* triples differ, else the first
Resolved(occ) ==
    IF occ = << >> THEN None
    ELSE IF \E i, j \in 1..Len(occ) : occ[i].type # occ[j].type THEN None
    ELSE IF \E i, j \in 1..Len(occ) : Triple(occ[i]) # Triple(occ[j])
         THEN None
    ELSE occ[1]

\* C8: GeneInfo.gene is None without a gene-defining type, None with two
\* or more, the single feature of the one type, the first inserted of several
\* with one (start, end, strand), None when they differ; features of other
\* types, wherever inserted, do not change it.
C8_GeneResolution ==
    \A i \in 1..Len(geneMap) :
        GeneInfoGene(geneMap[i]) = Resolved(GeneDefining(geneMap[i].featList))

\* a gene id with two distinct gene features of one triple and a feature of
\* another type is being resolved to the first of them
C8_Witness ==
    /\ ppc = "pass2"
    /\ \E i \in 1..Len(geneMap) :
          LET occ == GeneDefining(geneMap[i].featList) IN
          /\ Len(occ) = 2
          /\ occ[1] # occ[2]
          /\ Len(geneMap[i].featList) = 3
          /\ ~ IsGene(geneMap[i].featList[1])
          /\ GeneInfoGene(geneMap[i]) = occ[1]

\* the gene id of a call on the output or the summary
CallId(c) ==
    IF c.op = "add" THEN c.arg.feature.attr[GeneIdAttrib]
    ELSE IF c.arg.kind = "bed" THEN c.arg.gene.attr[GeneIdAttrib]
    ELSE "track"

\* the features of the stream recorded for a gene id
Recorded(st, id) ==
    SelectSeq(st, LAMBDA f : GeneIdAttrib \in DOMAIN f.attr
                               /\ f.attr[GeneIdAttrib] = id)

\* the number of entries of self._geneMap pass 2 has dealt with
Handled ==
    IF ppc = "pass2" THEN mapPos - 1
    ELSE IF Completed THEN Len(geneMap) ELSE 0

\* C9: in unsorted mode a gene id that does not resolve gets no BED line and
\* no summary.add, the run does not abort, and every gene id that resolves
\* is finalized and written.
C9_UnresolvedSkipped ==
    (unsorted /\ geneMap # << >>) =>
        /\ raised = "none"
        /\ \A i \in 1..Handled :
              LET id == geneMap[i].id
                  mine == SelectSeq(calls, LAMBDA c : CallId(c) = id)
              IN  IF Resolved(GeneDefining(Recorded(stream, id))) = None
                  THEN mine = << >>
                  ELSE /\ Len(mine) >= 2
                       /\ Last(mine).op = "add"
                       /\ \A k \in 1..(Len(mine) - 1) : mine[k].op = "write"

\* an unsorted run has completed in which the first gene id did not resolve
\* and the second did
C9_Witness ==
    /\ unsorted
    /\ ppc = "done"
    /\ Len(geneMap) = 2
    /\ GeneInfoGene(geneMap[1]) = None
    /\ Len(Finalized) = 1
    /\ Finalized[1].feature.attr[GeneIdAttrib] = geneMap[2].id

RECURSIVE IdsInOrder(_)
\* the gene ids of a stream in the order of their first appearance
IdsInOrder(st) ==
    IF st = << >> THEN << >>
    ELSE LET before == IdsInOrder(SubSeq(st, 1, Len(st) - 1))
             f == Last(st)
         IN  IF GeneIdAttrib \notin DOMAIN f.attr THEN before
             ELSE IF \E k \in 1..Len(before) : before[k] = f.attr[GeneIdAttrib]
                  THEN before
             ELSE Append(before, f.attr[GeneIdAttrib])

\* the gene of a gene id that resolves: the canonical feature and every
\* recorded feature that is not gene-defining, in stream order
GeneOfId(st, id) ==
    [ feature  |-> Resolved(GeneDefining(Recorded(st, id))),
      features |-> SelectSeq(Recorded(st, id), LAMBDA f : ~ IsGene(f)) ]

\* C10: in unsorted mode the finalized genes are the gene ids that resolve,
\* each once, in the order of first appearance, each with its canonical
\* feature and every recorded feature that is not gene-defining, in
\* insertion order.
C10_UnsortedFinalization ==
    (unsorted /\ ppc \in {"pass2", "summary", "close", "done"}) =>
        LET ids == SubSeq(IdsInOrder(stream), 1, Handled)
            ok == SelectSeq(ids, LAMBDA id :
                      Resolved(GeneDefining(Recorded(stream, id))) # None)
        IN  Finalized = [ k \in 1..Len(ok) |-> GeneOfId(stream, ok[k]) ]

\* an unsorted run has completed with two genes finalized in the order of
\* first appearance, the first seen through a feature that came before its
\* gene feature
C10_Witness ==
    /\ unsorted
    /\ ppc = "done"
    /\ Len(Finalized) = 2
    /\ ~ IsGene(stream[1])
    /\ Finalized[1].features = << stream[1] >>

\* the features of a stream that carry the gene-id attribute
Bearing(st) == SelectSeq(st, LAMBDA f : GeneIdAttrib \in DOMAIN f.attr)

RECURSIVE SumLen(_)
SumLen(q) == IF q = << >> THEN 0 ELSE Len(Head(q)) + SumLen(Tail(q))

\* the number of features held by self._geneMap
MapSize == SumLen([ i \in 1..Len(geneMap) |-> geneMap[i].featList ])

\* C11: unsorted mode raises ValueError exactly when no feature of the
\* stream carries the gene-id attribute; features without it are dropped
\* without an error; the error comes after pass 1, before any gene is
\* resolved and before anything is written.
C11_DataError ==
    (unsorted /\ ppc # "idle") =>
        /\ raised \in {"none", "ValueError"}
        /\ ppc = "pass1" => raised = "none"
        /\ ppc # "pass1" => (raised = "ValueError" <=> Bearing(stream) = << >>)
        /\ MapSize = Len(Bearing(stream))
        /\ raised = "ValueError" =>
              /\ ppc = "raised"
              /\ mapPos = 0
              /\ calls = << >>
              /\ summary = [ chromosomes |-> << >>, genetypes |-> << >> ]

\* the data error has been raised on a stream of two features without the
\* attribute
C11_Witness ==
    /\ unsorted
    /\ raised = "ValueError"
    /\ Len(stream) = 2

\* the genes that have been finalized so far according to the stream: in
\* sorted mode every gene but the one still in the slot, in unsorted mode the
\* gene ids pass 2 has dealt with that resolve
ExpectedFinalized ==
    IF unsorted
    THEN LET ids == SubSeq(IdsInOrder(stream), 1, Handled)
             ok == SelectSeq(ids, LAMBDA id :
                       Resolved(GeneDefining(Recorded(stream, id))) # None)
         IN  [ k \in 1..Len(ok) |-> GeneOfId(stream, ok[k]) ]
    ELSE LET genes == GenesInStreamOrder(stream) IN
         IF ppc = "sorted" THEN SubSeq(genes, 1, Len(genes) - 1) ELSE genes

RECURSIVE GeneBlocks(_)
\* for each gene in turn: its BED lines written, then summary.add of it
GeneBlocks(genes) ==
    IF genes = << >> THEN << >>
    ELSE LET g == Head(genes) IN
         [ i \in 1..Len(ToBedDetailed(g)) |->
             [ op |-> "write", arg |-> ToBedDetailed(g)[i] ] ]
           \o << [ op |-> "add", arg |-> g ] >>
           \o GeneBlocks(Tail(genes))

\* the calls other than the writes of trailer lines
GeneCalls ==
    SelectSeq(calls, LAMBDA c : c.op = "add" \/ c.arg.kind = "bed")

RECURSIVE TotalLength(_)
TotalLength(genes) ==
    IF genes = << >> THEN 0
    ELSE (Head(genes).feature.iv.end - Head(genes).feature.iv.start)
            + TotalLength(Tail(genes))

ChromOf(g) == g.feature.iv.chrom

TypeOf(g) == g.feature.attr[GeneTypeAttrib]

\* the totals of a summary mapping are the sums over the genes of each key
TotalsMatch(d, genes, KeyOf(_)) ==
    /\ { d[i][1] : i \in 1..Len(d) }
          = { KeyOf(genes[k]) : k \in 1..Len(genes) }
    /\ \A i \in 1..Len(d) :
          d[i][2] = TotalLength(SelectSeq(genes,
                                          LAMBDA g : KeyOf(g) = d[i][1]))

\* no entry of a summary mapping disappears or decreases in a step
NeverDecreases(d, e) ==
    /\ Len(e) >= Len(d)
    /\ \A i \in 1..Len(d) : e[i][1] = d[i][1] /\ e[i][2] >= d[i][2]

\* C12: in both modes and at every point of a run, summary.add has been
\* called once for each gene finalized so far, in finalization order, after
\* the BED lines of that gene and for no other gene; each chromosome total and
\* each gene-type total is the sum of the lengths of the finalized genes of
\* that key, and no total ever decreases.
C12_SummaryAdds ==
    /\ [](ppc # "idle" =>
            /\ GeneCalls = GeneBlocks(ExpectedFinalized)
            /\ TotalsMatch(summary.chromosomes, ExpectedFinalized, ChromOf)
            /\ TotalsMatch(summary.genetypes, ExpectedFinalized, TypeOf))
    /\ [][ /\ NeverDecreases(summary.chromosomes, summary'.chromosomes)
           /\ NeverDecreases(summary.genetypes, summary'.genetypes) ]_vars

\* protein_coding genes of length 120 on chr1 and of length 80 on chr2 have
\* been finalized
C12_Witness ==
    /\ ppc = "done"
    /\ Len(Finalized) = 2
    /\ summary.chromosomes = << << "chr1", 120 >>, << "chr2", 80 >> >>
    /\ summary.genetypes = << << "protein_coding", 200 >> >>

RECURSIVE FirstSeen(_)
\* the distinct elements of a sequence in the order of their first occurrence
FirstSeen(q) ==
    IF q = << >> THEN << >>
    ELSE LET before == FirstSeen(SubSeq(q, 1, Len(q) - 1)) IN
         IF \E k \in 1..Len(before) : before[k] = Last(q)
         THEN before ELSE Append(before, Last(q))

\* one trailer line per key of the genes, in first-seen order, with the
\* total length of the genes of that key
TrailerLines(what, genes, KeyOf(_)) ==
    LET keys == FirstSeen([ k \in 1..Len(genes) |-> KeyOf(genes[k]) ]) IN
    [ i \in 1..Len(keys) |->
        [ op |-> "write",
          arg |-> [ kind |-> "track", what |-> what, key |-> keys[i],
                    length |-> TotalLength(SelectSeq(genes,
                                   LAMBDA g : KeyOf(g) = keys[i])) ] ] ]

\* C13: in a run of process that completes, the trailer follows the last BED
\* line of the last finalized gene; it is one `track chr` line per chromosome
\* and then one `track type` line per gene type of the finalized genes, each
\* key once and in first-seen order; before that no trailer line is written.
C13_Trailer ==
    ppc # "idle" =>
        IF ppc \in {"close", "done"}
        THEN calls = GeneBlocks(ExpectedFinalized)
                        \o TrailerLines("chr", ExpectedFinalized, ChromOf)
                        \o TrailerLines("type", ExpectedFinalized, TypeOf)
        ELSE \A i \in 1..Len(calls) :
                calls[i].op = "write" => calls[i].arg.kind = "bed"

\* a run has completed whose trailer names chr2 before chr1, the order in
\* which the genes were finalized
C13_Witness ==
    /\ ppc = "done"
    /\ Len(calls) >= 3
    /\ calls[Len(calls) - 2].arg = TrackChr(<< "chr2", 80 >>)
    /\ calls[Len(calls) - 1].arg = TrackChr(<< "chr1", 120 >>)
    /\ calls[Len(calls)].arg = TrackType(<< "protein_coding", 200 >>)

\* C14: the output is closed exactly once at the end of every top-level
\* call, after a run that succeeds and after one that ends with the ordering
\* error, the data error or a parsing error.
C14_ClosedOnEveryExit ==
    /\ closedCount <= 1
    /\ (ppc \in {"done", "raised"} \/ tpc \in {"done", "raised"})
          => closedCount = 1

\* the gene ids pass 2 has dealt with that resolve and have several
\* gene-defining features
DuplicatedIds ==
    LET ids == SubSeq(IdsInOrder(stream), 1, Handled) IN
    { ids[k] : k \in { n \in 1..Len(ids) :
        /\ Resolved(GeneDefining(Recorded(stream, ids[n]))) # None
        /\ Len(GeneDefining(Recorded(stream, ids[n]))) >= 2 } }

\* the genes handed to summary.add for a gene id
FinalizedFor(id) ==
    SelectSeq(Finalized, LAMBDA g : g.feature.attr[GeneIdAttrib] = id)

\* the gene pass 2 would build for a gene id from the gene feature f
GeneWith(id, f) ==
    [ feature  |-> f,
      features |-> SelectSeq(Recorded(stream, id), LAMBDA x : ~ IsGene(x)) ]

\* what processGene writes and adds for a gene
OutputOf(g) ==
    << GeneBlocks(<< g >>),
       SummaryAdd([ chromosomes |-> << >>, genetypes |-> << >> ], g) >>

\* C15, as claimed: in unsorted mode, for a gene id with several
\* gene-defining features of one type and one (start, end, strand), exactly
\* one is used and the finalized gene and the output are the same whichever
\* duplicate is picked, also when the duplicates differ in their attributes.
C15_OutputIndependentOfPick ==
    unsorted =>
        \A id \in DuplicatedIds :
            LET occ == GeneDefining(Recorded(stream, id)) IN
            /\ Len(FinalizedFor(id)) = 1
            /\ \A k \in 1..Len(occ) :
                  /\ GeneWith(id, occ[k]) = FinalizedFor(id)[1]
                  /\ OutputOf(GeneWith(id, occ[k]))
                        = OutputOf(FinalizedFor(id)[1])

\* C15, amended: exactly one duplicate is used, the first in stream order;
\* start, end, strand, length and the list of subordinate features of the
\* finalized gene are the same whichever duplicate is picked, while its
\* attributes, its BED lines and its gene-type bucket are those of the first.
C15_FirstDuplicateUsed ==
    unsorted =>
        \A id \in DuplicatedIds :
            LET occ == GeneDefining(Recorded(stream, id)) IN
            /\ Len(FinalizedFor(id)) = 1
            /\ FinalizedFor(id)[1].feature = occ[1]
            /\ OutputOf(GeneWith(id, occ[1])) = OutputOf(FinalizedFor(id)[1])
            /\ \A k \in 1..Len(occ) :
                  /\ Triple(occ[k]) = Triple(FinalizedFor(id)[1].feature)
                  /\ occ[k].iv.end - occ[k].iv.start
                        = FinalizedFor(id)[1].feature.iv.end
                            - FinalizedFor(id)[1].feature.iv.start
                  /\ GeneWith(id, occ[k]).features
                        = FinalizedFor(id)[1].features

\* an unsorted run has completed in which a gene id had two gene features of
\* one triple and different attributes, the second one first in the stream
C15_Witness ==
    /\ unsorted
    /\ ppc = "done"
    /\ \E id \in DuplicatedIds :
          LET occ == GeneDefining(Recorded(stream, id)) IN
          /\ occ[1].attr # occ[2].attr
          /\ occ[1].attr[GeneTypeAttrib] = "lncRNA"
          /\ FinalizedFor(id)[1].feature = occ[1]

(***************************************************************************)
(* Further properties of slidingWindow.                                    *)
(***************************************************************************)
\* the rows written for the current data line
LineRows == [ i \in 1..(Len(out) - mark) |-> out[mark + i] ]

\* the position of the last "W" of a UID
LastW(uid) ==
    CHOOSE w \in 1..Len(uid) :
        uid[w] = "W" /\ \A v \in (w + 1)..Len(uid) : uid[v] # "W"

\* t is s with zeros on its left up to the width w
IsPadded(t, s, w) ==
    /\ Len(t) = IF Len(s) >= w THEN Len(s) ELSE w
    /\ SubSeq(t, Len(t) - Len(s) + 1, Len(t)) = s
    /\ \A k \in 1..(Len(t) - Len(s)) : t[k] = "0"

\* C16: every row written for a data line carries the chromosome, score and
\* strand of the line, and its name is the first five tokens of the line, the
\* UID and the window serial; the UID is name[0], ":", the type tag, the part
\* of the fifth token before "/" padded to 4 digits, "W" and the counter
\* padded to 5 digits, the same counter as the serial.
C16_RowFields ==
    (tpc # "idle" /\ ~ line.track) =>
        \A i \in 1..Len(LineRows) :
            LET r == LineRows[i]
                uid == r.name[6]
                w == LastW(uid)
            IN  /\ r.chrom = line.chrom
                /\ r.score = line.score
                /\ r.strand = line.strand
                /\ Len(r.name) = 7
                /\ SubSeq(r.name, 1, 5) = SubSeq(line.name, 1, 5)
                /\ uid[1] = line.name[1]
                /\ uid[2] = ":"
                /\ uid[3] = line.name[4]
                /\ IsPadded(SubSeq(uid, 4, w - 1), line.name[5].num, 4)
                /\ IsPadded(SubSeq(uid, w + 1, Len(uid)), r.name[7], 5)
                /\ r.name[7] = Digits(ToInt(r.name[7]))

\* a line of g1, whose feature number "1" has to be padded, has been split
\* into several windows
C16_Witness ==
    /\ tpc = "read"
    /\ ~ line.track
    /\ line.name[1] = "g1"
    /\ Len(LineRows) >= 2
    /\ ToInt(LineRows[2].name[7]) >= 2

\* C17: every window written for a data line with start < end, for any
\* windowSize >= 1 and windowStep >= 1, windowStep > windowSize included, is
\* a non-empty part of the interval, start <= windowStart < windowEnd <= end,
\* at most windowSize wide, and every window but the last of the line is
\* exactly windowSize wide.
C17_WindowsInsideInterval ==
    (tpc # "idle" /\ ~ line.track /\ LineStart < LineEnd) =>
        \A i \in 1..Len(LineWindows) :
            LET ws == LineWindows[i][1]
                we == LineWindows[i][2]
            IN  /\ LineStart <= ws
                /\ ws < we
                /\ we <= LineEnd
                /\ we - ws <= windowSize
                /\ i < Len(LineWindows) => we - ws = windowSize

\* C18: a line that starts with `track` writes no row and leaves every
\* counter as it is; the processing of a data line changes the counter of
\* the name of that line only and writes rows of that name only, so between
\* lines the counter kept for a name follows from the rows of that name alone.
C18_CounterFrame ==
    /\ [](tpc = "read" =>
            \A n \in DOMAIN windowidMap :
                LET mine == SelectSeq(out, LAMBDA r : RowName(r) = n) IN
                /\ mine # << >>
                /\ windowidMap[n] = RowSerial(mine[Len(mine)]) + 1)
    /\ [][ /\ (tpc = "read" /\ tpc' = "read" /\ nLines' = nLines + 1)
                 => (out' = out /\ windowidMap' = windowidMap)
           /\ \A n \in DOMAIN windowidMap :
                 (line'.track \/ n # line'.name[1])
                    => /\ n \in DOMAIN windowidMap'
                       /\ windowidMap'[n] = windowidMap[n]
           /\ \A i \in (Len(out) + 1)..Len(out') :
                 out'[i].name[1] = line'.name[1] ]_vars

\* a line of each of the two names has been processed, the counter of the
\* first still in the mapping
C18_Witness ==
    /\ tpc = "read"
    /\ nLines = 2
    /\ DOMAIN windowidMap = Names
    /\ RowName(out[1]) # RowName(out[Len(out)])

(***************************************************************************)
(* Further properties of process.                                          *)
(***************************************************************************)
IdOf(f) == f.attr[GeneIdAttrib]

\* every feature carries the gene-id attribute, the stream starts with a
\* gene-defining feature, the gene-defining features have pairwise distinct
\* ids, and every other feature has the id of the gene-defining feature
\* before it: each gene is contiguous, its one gene-defining feature first
WellFormed(st) ==
    /\ \A i \in 1..Len(st) : GeneIdAttrib \in DOMAIN st[i].attr
    /\ st # << >> => IsGene(st[1])
    /\ \A i, j \in GenePositions(st) : i # j => IdOf(st[i]) # IdOf(st[j])
    /\ \A i \in 1..Len(st) :
          ~ IsGene(st[i]) =>
              \E p \in GenePositions(st) :
                  /\ p < i
                  /\ Boundary(st, p) > i
                  /\ IdOf(st[p]) = IdOf(st[i])

RECURSIVE SummaryOf(_)
\* the summary after summary.add of each gene in turn
SummaryOf(genes) ==
    IF genes = << >> THEN [ chromosomes |-> << >>, genetypes |-> << >> ]
    ELSE SummaryAdd(SummaryOf(SubSeq(genes, 1, Len(genes) - 1)),
                    genes[Len(genes)])

\* C19: on a well-formed stream the mode that ran and the other mode
\* finalize the same genes in the same order, each with the same canonical
\* feature and the same features, and so the same BED lines and summary;
\* neither raises unless the stream is empty.
C19_ModesAgree ==
    (ppc \in {"summary", "close", "done", "raised"}) =>
        LET own   == IF unsorted THEN UnsortedRun(stream)
                     ELSE SortedRun(stream, None, << >>)
            other == IF unsorted THEN SortedRun(stream, None, << >>)
                     ELSE UnsortedRun(stream)
        IN  /\ Finalized = own.genes
            /\ own.raised <=> raised # "none"
            /\ WellFormed(stream) =>
                  /\ Finalized = other.genes
                  /\ GeneCalls = GeneBlocks(other.genes)
                  /\ summary = SummaryOf(other.genes)
                  /\ stream # << >> => (~ other.raised /\ raised = "none")

\* an unsorted run on a well-formed stream of two genes has completed
C19_Witness ==
    /\ unsorted
    /\ ppc = "done"
    /\ WellFormed(stream)
    /\ Len(stream) = 3
    /\ Len(Finalized) = 2

Max(a, b) == IF a >= b THEN a ELSE b

\* C21: with windowSize >= 1 and windowStep >= 1, the stepping of every data
\* line ends with at least one window written for the line and never more
\* than the length of its interval (one for an interval no longer than one
\* position); and a run over lines that all parse reaches the point where
\* the output is closed, once.
C21_Terminates ==
    /\ [](windowSize >= 1 /\ windowStep >= 1)
    /\ (tpc \in {"split", "loop"}) ~> (tpc = "read" /\ Len(out) > mark)
    /\ [](tpc \in {"split", "loop", "read", "done"} /\ ~ line.track =>
             Len(out) - mark <= Max(1, ToInt(line.end) - ToInt(line.start)))
    /\ ([](tpc # "raised")) => <>(tpc = "done" /\ closedCount = 1)

\* a run of two data lines has closed the output, the stepping loop having
\* run more than once
C21_Witness ==
    /\ tpc = "done"
    /\ closedCount = 1
    /\ nLines = 2
    /\ Len(out) - mark >= 3
    /\ mark >= 1

====
